---- MODULE Spec2Model ----
(***************************************************************************)
(* Model of the R3 -> S4 conversion service (src/src/llm.js): the          *)
(* Transport function callLLM, the phase functions and the orchestrator    *)
(* llmService.                                                             *)
(*                                                                         *)
(* Strings are sequences of tokens.  A token is a piece of text that the   *)
(* code never looks into ("FENCE" is the three backticks, "NL" a newline,  *)
(* "abap" the language tag); a template literal is the concatenation of    *)
(* its constant pieces and its interpolated values.  A JavaScript value    *)
(* that may be undefined is a record [def, s].                             *)
(***************************************************************************)
EXTENDS Integers, Sequences, FiniteSets, TLC

\* ------------------------------------------------------------------ bounds
NUnits == 2
MaxChainCalls == 23
MaxReportLen == 4
MaxCodeLen == 6

\* ------------------------------------------------------- program constants
MAX_REVIEW_ITERATIONS == 3
HISTORY_CAP == 20
HTTP_OK == 200

Units == 1..NUnits

\* --------------------------------------------------------------- JS values
Undefined == [def |-> FALSE, s |-> <<>>]
Str(s) == [def |-> TRUE, s |-> s]
\* ${v} inside a template literal
Interp(v) == IF v.def THEN v.s ELSE <<"undefined">>

Min(S) == CHOOSE x \in S : \A y \in S : x <= y

Msg(role, content) == [role |-> role, content |-> content]

\* ---------------------------------------------------------------- callLLM
\* currentHistory.splice(1, currentHistory.length - 20)
Splice1(h, n) == <<h[1]>> \o SubSeq(h, 2 + n, Len(h))

\* mutant: the eviction starts at index 0 and takes the system message too
BuildMessagesEvictHead(systemMessage, userMessage, h) ==
    LET h1 == IF \E i \in 1..Len(h) : h[i].role = "system"
              THEN h ELSE <<Msg("system", systemMessage)>> \o h
        h2 == Append(h1, Msg("user", userMessage))
    IN  IF Len(h2) > HISTORY_CAP
        THEN SubSeq(h2, 1 + (Len(h2) - HISTORY_CAP), Len(h2))
        ELSE h2

\* the message list callLLM sends: copy, system message, user message, cap
BuildMessages(systemMessage, userMessage, h) ==
    LET h1 == IF \E i \in 1..Len(h) : h[i].role = "system"
              THEN h ELSE <<Msg("system", systemMessage)>> \o h
        h2 == Append(h1, Msg("user", userMessage))
    IN  IF Len(h2) > HISTORY_CAP
        THEN Splice1(h2, Len(h2) - HISTORY_CAP)
        ELSE h2

\* What the endpoint can answer to one fetch.  kind:
\*   "reject"       fetch() rejects (network failure), text = its message
\*   "http"         response.text() resolves to text (read when status # 200)
\*   "http_notext"  response.text() rejects (read when status # 200)
\*   "badjson"      status 200, response.json() rejects
\*   "null"         status 200, body is JSON null
\*   "nochoices"    status 200, body has no choices member
\*   "emptychoices" status 200, choices is []
\*   "nomessage"    status 200, choices[0] has no message
\*   "nocontent"    status 200, choices[0].message has no content
\*   "content"      status 200, choices[0].message.content = content
Response(kind, status, statusText, text, content) ==
    [kind |-> kind, status |-> status, statusText |-> statusText,
     text |-> text, content |-> content]

\* mutant: the exception is not caught and leaves callLLM
NetworkErrorRethrown(text) ==
    [thrown |-> TRUE, error |-> TRUE, message |-> <<text>>,
     result |-> Undefined, history |-> <<>>]

NetworkError(text) ==
    [error |-> TRUE,
     message |-> <<"Network or parsing error during LLM call: ", text>>,
     result |-> Undefined, history |-> <<>>]

ApiError(resp) ==
    [error |-> TRUE,
     message |-> <<"LLM API Error: ", resp.statusText, " - ", resp.text>>,
     result |-> Undefined, history |-> <<>>]

Malformed ==
    [error |-> TRUE, message |-> <<"LLM response was empty or malformed.">>,
     result |-> Undefined, history |-> <<>>]

\* mutant: every 2xx status is taken for a success
ReceiveAny2xx(resp, currentHistory) ==
    IF resp.kind = "reject" THEN NetworkError(resp.text)
    ELSE IF resp.status < HTTP_OK \/ resp.status >= 300
    THEN IF resp.kind = "http_notext" THEN NetworkError(resp.text)
         ELSE ApiError(resp)
    ELSE CASE resp.kind = "badjson" -> NetworkError(resp.text)
           [] resp.kind \in {"null", "nomessage"} -> Malformed
           [] resp.kind \in {"nochoices", "emptychoices"} ->
                 NetworkError("Cannot read properties of undefined")
           [] resp.kind = "nocontent" ->
                 [error |-> FALSE, message |-> <<>>,
                  result |-> Undefined, history |-> currentHistory]
           [] OTHER ->
                 [error |-> FALSE, message |-> <<>>,
                  result |-> Str(resp.content), history |-> currentHistory]

\* the value callLLM resolves to once the endpoint has answered resp; result
\* is the content of the assistant message
Receive(resp, currentHistory) ==
    IF resp.kind = "reject" THEN NetworkError(resp.text)
    ELSE IF resp.status # HTTP_OK
    THEN IF resp.kind = "http_notext" THEN NetworkError(resp.text)
         ELSE ApiError(resp)
    ELSE CASE resp.kind = "badjson" -> NetworkError(resp.text)
           [] resp.kind = "null" -> Malformed
           [] resp.kind = "nochoices" ->
                 NetworkError("Cannot read properties of undefined (reading '0')")
           [] resp.kind = "emptychoices" ->
                 NetworkError("Cannot read properties of undefined (reading 'message')")
           [] resp.kind = "nomessage" -> Malformed
           [] resp.kind = "nocontent" ->
                 [error |-> FALSE, message |-> <<>>,
                  result |-> Undefined, history |-> currentHistory]
           [] OTHER ->
                 [error |-> FALSE, message |-> <<>>,
                  result |-> Str(resp.content), history |-> currentHistory]

\* -------------------------------------------------------- reply parsing
IsWhite(t) == t \in {" ", "NL"}

\* letter case is ignored by the /i flag of the verdict pattern
Upper(t) ==
    CASE t \in {"Needs Correction:", "needs correction:", "NEEDS CORRECTION:"}
            -> "NEEDS CORRECTION:"
      [] t \in {"YES", "yes", "Yes"} -> "YES"
      [] t \in {"NO", "no", "No"} -> "NO"
      [] OTHER -> t

\* position of the verdict token when /Needs Correction:\s*(YES|NO)/i
\* matches at position i of report, 0 when it does not
RECURSIVE VerdictAt(_, _)
VerdictAt(report, j) ==
    IF j > Len(report) THEN 0
    ELSE IF Upper(report[j]) \in {"YES", "NO"} THEN j
    ELSE IF IsWhite(report[j]) THEN VerdictAt(report, j + 1)
    ELSE 0

VerdictMatches(report) ==
    {i \in 1..Len(report) :
        Upper(report[i]) = "NEEDS CORRECTION:" /\ VerdictAt(report, i + 1) > 0}

\* mutant: any verdict line asks for a correction, whatever it says
NeedsCorrectionAnyVerdict(report) == VerdictMatches(report) # {}

\* mutant: the verdict is compared without toUpperCase()
NeedsCorrectionCaseSensitive(report) ==
    IF VerdictMatches(report) = {} THEN FALSE
    ELSE report[VerdictAt(report, Min(VerdictMatches(report)) + 1)] = "YES"

\* needsCorrectionMatch && needsCorrectionMatch[1].toUpperCase() === 'YES'
NeedsCorrection(report) ==
    IF VerdictMatches(report) = {} THEN FALSE
    ELSE Upper(report[VerdictAt(report, Min(VerdictMatches(report)) + 1)]) = "YES"

\* positions where the opening fence of the code pattern matches
FenceStarts(c) ==
    {i \in 1..(Len(c) - 2) :
        c[i] = "FENCE" /\ c[i + 1] = "abap" /\ c[i + 2] = "NL"}

\* positions of a newline followed by a fence, after the opening at i
FenceEnds(c, i) ==
    {j \in (i + 3)..(Len(c) - 1) : c[j] = "NL" /\ c[j + 1] = "FENCE"}

FenceMatches(c) == {i \in FenceStarts(c) : FenceEnds(c, i) # {}}

\* mutant: without a match the extraction gives the empty string
ExtractCodeNoFallback(c) ==
    IF FenceMatches(c) = {} THEN <<>>
    ELSE LET i == Min(FenceMatches(c))
             j == Min(FenceEnds(c, i))
         IN  SubSeq(c, i + 3, j - 1)

\* match ? match[1] : content   for   /```abap\n([\s\S]*?)\n```/
ExtractCode(c) ==
    IF FenceMatches(c) = {} THEN c
    ELSE LET i == Min(FenceMatches(c))
             j == Min(FenceEnds(c, i))
         IN  SubSeq(c, i + 3, j - 1)

\* -------------------------------------------------------- prompt templates
ReqBlock(header, req) ==
    IF req # <<>> THEN <<header, "NL">> \o req \o <<"NL">> ELSE <<>>

Fenced(tag, body) == <<"FENCE">> \o tag \o <<"NL">> \o body \o <<"NL", "FENCE">>

SpecSystemMessage(d, req) ==
    <<"You are an expert SAP ABAP consultant ...", "NL">> \o d
        \o <<"NL", "The specification should include: ...", "NL">>
        \o ReqBlock("**User-specified additional requirements for this conversion:**", req)
        \o <<"Provide the specification in a structured, readable markdown format.">>

SpecUserMessage(src) ==
    <<"Analyze the following R3 ABAP source code and generate the S4 specification:", "NL">>
        \o Fenced(<<"abap">>, src)

ConvSystemMessage(d, req) ==
    <<"You are a highly skilled SAP ABAP developer ...", "NL">> \o d
        \o <<"NL", "Key considerations for conversion: ...", "NL">>
        \o ReqBlock("**User-specified additional requirements for this conversion:**", req)
        \o <<"Provide only the ABAP code, enclosed in a markdown code block.">>

ConvUserMessage(src, spec) ==
    <<"Here is the S4 technical specification:", "NL">> \o Fenced(<<>>, Interp(spec))
        \o <<"NL", "Here is the R3 ABAP source code to convert:", "NL">>
        \o Fenced(<<"abap">>, src)
        \o <<"NL", "Convert the R3 code to S4 ABAP 7.5+ based on the specification.">>

ReviewSystemMessage(d, req) ==
    <<"You are a meticulous SAP ABAP Quality Assurance expert ...", "NL">> \o d
        \o <<"NL">>
        \o ReqBlock("**Consider the following user-specified requirements during your review:**", req)
        \o <<"Provide a detailed review report. ...", "NL", "## Summary", "NL",
             "Needs Correction:", " ", "YES", "NL", "Justification: ...">>

ReviewUserMessage(code, spec, src) ==
    <<"Review the following S4 ABAP code ...", "NL", "**Original R3 ABAP Code:**", "NL">>
        \o Fenced(<<"abap">>, src)
        \o <<"NL", "**Generated S4 ABAP Code (for review):**", "NL">>
        \o Fenced(<<"abap">>, code)
        \o <<"NL", "**S4 Technical Specification:**", "NL">>
        \o Fenced(<<>>, Interp(spec))
        \o <<"NL", "Provide a detailed code review report as per your instructions.">>

CorrectionSystemMessage(d, req) ==
    <<"You are an expert SAP ABAP developer specifically tasked with correcting ...", "NL">>
        \o d \o <<"NL">>
        \o ReqBlock("**Also ensure the corrected code adheres to the following user-specified requirements:**", req)
        \o <<"Provide only the corrected ABAP code, enclosed in a markdown code block.">>

CorrectionUserMessage(src, spec, code, report) ==
    <<"Please apply the corrections from the following review report to the S4 code.",
      "NL", "**Original R3 ABAP Code:**", "NL">>
        \o Fenced(<<"abap">>, src)
        \o <<"NL", "**S4 Technical Specification:**", "NL">>
        \o Fenced(<<>>, Interp(spec))
        \o <<"NL", "**Current S4 ABAP Code (needs correction):**", "NL">>
        \o Fenced(<<"abap">>, code)
        \o <<"NL", "**Code Review Report (detailing necessary corrections):**", "NL">>
        \o Fenced(<<>>, report)
        \o <<"NL", "Provide the corrected S4 ABAP code.">>

\* ------------------------------------------------ records of the history
StartRecord(src, req) ==
    Msg("user",
        <<"Please start the R3 to S4 conversion process for the following R3 code:", "NL">>
            \o Fenced(<<"abap">>, src)
            \o <<"NL", "Additional requirements: ">> \o req)

SpecRecord(spec) ==
    Msg("assistant", <<"**Generated S4 Specification:**", "NL">> \o Interp(spec))

ConvRecord(code) ==
    Msg("assistant",
        <<"**Initial S4 Code Conversion:**", "NL">> \o Fenced(<<"abap">>, code))

\* mutant: the record is numbered from the 0-based loop counter
ReviewRecordZeroBased(iteration, report) ==
    Msg("assistant",
        <<"**Code Review Report (Iteration ", ToString(iteration - 1), "):**", "NL">>
            \o report)

ReviewRecord(iteration, report) ==
    Msg("assistant",
        <<"**Code Review Report (Iteration ", ToString(iteration), "):**", "NL">>
            \o report)

CorrectedRecord(iteration, code) ==
    Msg("assistant",
        <<"**Corrected S4 Code (Iteration ", ToString(iteration), "):**", "NL">>
            \o Fenced(<<"abap">>, code))

FinalReviewRecord(report) ==
    Msg("assistant",
        <<"**Final Review Report after ", ToString(MAX_REVIEW_ITERATIONS),
          " iterations:**", "NL">> \o report)

ErrorRecord(message) ==
    Msg("assistant", <<"Error during conversion: ">> \o message)

WorkflowError(message) == <<"R3 to S4 conversion workflow failed: ">> \o message

WarningText ==
    <<"Max review iterations (", ToString(MAX_REVIEW_ITERATIONS),
      ") reached. Manual review recommended.">>

\* reading .match of an undefined content
MatchTypeError == <<"Cannot read properties of undefined (reading 'match')">>

\* ------------------------------------------------------------------ state
VARIABLES
    docs,                  \* the knowledge excerpt read when the module loads
    pc,                    \* per unit: the await llmService is suspended at
    r3SourceCode,          \* per unit: argument of llmService
    additionalRequirement, \* per unit: argument of llmService
    history,               \* per unit: the caller's history array
    currentHistory,        \* per unit: llmService's own copy
    specification,         \* per unit
    s4Code,                \* per unit: the candidate code
    reviewIteration,       \* per unit
    reviewReport,          \* per unit: report of the last review
    calls,                 \* per unit: the fetch requests issued so far
    replies,               \* per unit: the answers received so far
    ret,                   \* per unit: what the promise of llmService settled to
    chainHistory,          \* a caller of callLLM feeding each history back
    chainSent,             \* user messages of the successful calls of that caller
    chainCalls,            \* number of calls of that caller
    chainResult,           \* what its last call resolved to
    callPc,                \* one invocation of callLLM: idle, awaiting, returned
    callArg,               \* the history array its caller passed, as it was
    callArgAfter,          \* the same array, as the invocation leaves it
    callSent,              \* the messages of the request body
    callFetches,           \* network requests issued by the invocation
    callResp,              \* what the endpoint answered
    callResult,            \* what the invocation resolved to
    text,                  \* a reply content given to the parsing steps
    askPc,                 \* ask: idle, loop (in the for loop), finished, aborted
    file,                  \* ask: index in abapFiles of the file of this iteration
    outcome,               \* ask: per file, how its iteration ended
    additionalRequirements \* ask: the requirements the user entered

unitVars == <<pc, r3SourceCode, additionalRequirement, history, currentHistory,
              specification, s4Code, reviewIteration, reviewReport, calls,
              replies, ret>>
chainVars == <<chainHistory, chainSent, chainCalls, chainResult>>
callVars == <<callPc, callArg, callArgAfter, callSent, callFetches, callResp,
              callResult>>
askVars == <<askPc, file, outcome, additionalRequirements>>
vars == <<docs, unitVars, chainVars, callVars, text, askVars>>

NoRet ==
    [kind |-> "pending", fields |-> {}, finalS4Code |-> <<>>,
     finalReviewReport |-> <<>>, specification |-> Undefined,
     warning |-> <<>>, message |-> <<>>, history |-> <<>>]

\* mutant: the report is returned in the place of the code
SuccessResultSwapped(code, report, spec, h) ==
    [kind |-> "result",
     fields |-> {"finalS4Code", "finalReviewReport", "specification"},
     finalS4Code |-> report, finalReviewReport |-> report, specification |-> spec,
     warning |-> <<>>, message |-> <<>>, history |-> h]

\* return { result: { finalS4Code, finalReviewReport, specification }, history }
SuccessResult(code, report, spec, h) ==
    [kind |-> "result",
     fields |-> {"finalS4Code", "finalReviewReport", "specification"},
     finalS4Code |-> code, finalReviewReport |-> report, specification |-> spec,
     warning |-> <<>>, message |-> <<>>, history |-> h]

\* mutant: the warning is set only when the closing review asks for more
WarningResultOnlyIfYes(code, report, spec, h) ==
    [kind |-> "result",
     fields |-> {"finalS4Code", "finalReviewReport", "specification"}
                \cup (IF NeedsCorrection(report) THEN {"warning"} ELSE {}),
     finalS4Code |-> code, finalReviewReport |-> report, specification |-> spec,
     warning |-> IF NeedsCorrection(report) THEN WarningText ELSE <<>>,
     message |-> <<>>, history |-> h]

\* the same with the warning field
WarningResult(code, report, spec, h) ==
    [kind |-> "result",
     fields |-> {"finalS4Code", "finalReviewReport", "specification", "warning"},
     finalS4Code |-> code, finalReviewReport |-> report, specification |-> spec,
     warning |-> WarningText, message |-> <<>>, history |-> h]

\* mutant: the error result also carries the specification
ErrorResultPartial(message, h) ==
    [kind |-> "error", fields |-> {"specification"}, finalS4Code |-> <<>>,
     finalReviewReport |-> <<>>, specification |-> Undefined,
     warning |-> <<>>, message |-> WorkflowError(message), history |-> h]

\* return { error: { message }, history }
ErrorResult(message, h) ==
    [kind |-> "error", fields |-> {}, finalS4Code |-> <<>>,
     finalReviewReport |-> <<>>, specification |-> Undefined,
     warning |-> <<>>, message |-> WorkflowError(message), history |-> h]

\* the promise rejects: an exception left llmService
Rejected(message) ==
    [kind |-> "rejected", fields |-> {}, finalS4Code |-> <<>>,
     finalReviewReport |-> <<>>, specification |-> Undefined,
     warning |-> <<>>, message |-> message, history |-> <<>>]

\* ----------------------------------------------------------------- inputs
Sources == {<<"REPORT zr3.">>, <<"REPORT zr3.", "NL", "WRITE 'x'.">>}
Requirements == {<<>>, <<"Use CDS views.">>}
DocTexts == {<<>>, <<"SAP knowledge">>}

OldMessage(i) ==
    Msg(IF i % 2 = 1 THEN "user" ELSE "assistant", <<"earlier message ", ToString(i)>>)

\* caller histories: none, a short one, one that already holds the cap
Histories ==
    {<<>>, [i \in 1..2 |-> OldMessage(i)], [i \in 1..HISTORY_CAP |-> OldMessage(i)]}

FailureResponses ==
    {Response("reject", 0, "", "fetch failed", <<>>),
     Response("http", 500, "Internal Server Error", "upstream down", <<>>),
     Response("http_notext", 502, "Bad Gateway", "terminated", <<>>),
     Response("badjson", HTTP_OK, "OK", "Unexpected token < in JSON at position 0", <<>>),
     Response("null", HTTP_OK, "OK", "", <<>>),
     Response("nochoices", HTTP_OK, "OK", "", <<>>),
     Response("emptychoices", HTTP_OK, "OK", "", <<>>),
     Response("nomessage", HTTP_OK, "OK", "", <<>>)}

NoContentResponse == Response("nocontent", HTTP_OK, "OK", "", <<>>)

Content(c) == Response("content", HTTP_OK, "OK", "", c)

SpecResponses ==
    FailureResponses \cup {NoContentResponse, Content(<<"## S4 specification">>)}

CodeResponses ==
    FailureResponses \cup
    {NoContentResponse,
     Content(<<"FENCE", "abap", "NL", "DATA(a) = 1.", "NL", "FENCE">>),
     Content(<<"Here is the code:", "NL", "FENCE", "abap", "NL", "DATA(b) = 2.",
               "NL", "FENCE", "NL", "Done.">>),
     Content(<<"DATA(c) = 3.">>)}

ReviewResponses ==
    FailureResponses \cup
    {NoContentResponse,
     Content(<<"## Summary", "NL", "Needs Correction:", " ", "YES">>),
     Content(<<"## Summary", "NL", "Needs Correction:", " ", "NO">>),
     Content(<<"## Summary", "NL", "needs correction:", "no">>),
     Content(<<"Looks fine.">>)}

\* ------------------------------------------------------------------ Init
NoResult == [error |-> FALSE, message |-> <<>>, result |-> Undefined,
             history |-> <<>>]

\* nothing has been called yet; t is the reply content under test
Idle(t) ==
    /\ pc = [u \in Units |-> "idle"]
    /\ r3SourceCode = [u \in Units |-> <<>>]
    /\ additionalRequirement = [u \in Units |-> <<>>]
    /\ history = [u \in Units |-> <<>>]
    /\ currentHistory = [u \in Units |-> <<>>]
    /\ specification = [u \in Units |-> Undefined]
    /\ s4Code = [u \in Units |-> <<>>]
    /\ reviewIteration = [u \in Units |-> 0]
    /\ reviewReport = [u \in Units |-> <<>>]
    /\ calls = [u \in Units |-> <<>>]
    /\ replies = [u \in Units |-> <<>>]
    /\ ret = [u \in Units |-> NoRet]
    /\ chainHistory = <<>>
    /\ chainSent = <<>>
    /\ chainCalls = 0
    /\ chainResult = NoResult
    /\ callPc = "idle"
    /\ callArg = <<>>
    /\ callArgAfter = <<>>
    /\ callSent = <<>>
    /\ callFetches = 0
    /\ callResp = Response("none", 0, "", "", <<>>)
    /\ callResult = NoResult
    /\ text = t
    /\ askPc = "idle"
    /\ file = 1
    /\ outcome = [u \in Units |-> "none"]
    /\ additionalRequirements = <<>>

Init == docs \in DocTexts /\ Idle(<<>>)

\* ------------------------------------------------------------ llmService
\* a phase calls callLLM(systemMessage, userMessage): history defaults to []
Request(phase, iteration, systemMessage, userMessage) ==
    [phase |-> phase, iteration |-> iteration,
     messages |-> BuildMessages(systemMessage, userMessage, <<>>)]

\* mutant: the loop runs while reviewIteration <= MAX_REVIEW_ITERATIONS
LoopContinuesInclusive(iteration) == iteration <= MAX_REVIEW_ITERATIONS

\* while (reviewIteration < MAX_REVIEW_ITERATIONS)
LoopContinues(iteration) == iteration < MAX_REVIEW_ITERATIONS

LastCall(u) == calls[u][Len(calls[u])]

\* mutant: the exception is not caught and the promise rejects
ThrowEscapes(u, message) ==
    /\ ret' = [ret EXCEPT ![u] = Rejected(message)]
    /\ pc' = [pc EXCEPT ![u] = "done"]
    /\ UNCHANGED <<currentHistory, specification, s4Code, reviewIteration,
                   reviewReport, calls>>

\* mutant: the catch block returns the error without recording it
ThrowNoRecord(u, message) ==
    /\ ret' = [ret EXCEPT ![u] = ErrorResult(message, currentHistory[u])]
    /\ pc' = [pc EXCEPT ![u] = "done"]
    /\ UNCHANGED <<currentHistory, specification, s4Code, reviewIteration,
                   reviewReport, calls>>

\* mutant: the history is one array of the module, shared by all runs
ThrowShared(u, message) ==
    /\ currentHistory' = [v \in Units |-> Append(currentHistory[v], ErrorRecord(message))]
    /\ ret' = [ret EXCEPT ![u] =
                  ErrorResult(message, Append(currentHistory[u], ErrorRecord(message)))]
    /\ pc' = [pc EXCEPT ![u] = "done"]
    /\ UNCHANGED <<specification, s4Code, reviewIteration, reviewReport, calls>>

\* an exception inside the try block: the catch block of llmService
Throw(u, message) ==
    /\ currentHistory' = [currentHistory EXCEPT ![u] = Append(@, ErrorRecord(message))]
    /\ ret' = [ret EXCEPT ![u] =
                  ErrorResult(message, Append(currentHistory[u], ErrorRecord(message)))]
    /\ pc' = [pc EXCEPT ![u] = "done"]
    /\ UNCHANGED <<specification, s4Code, reviewIteration, reviewReport, calls>>

\* mutant: the run starts from an empty history instead of a copy of the
\* caller's
StartFresh(u, src, req, h) ==
    /\ pc[u] = "idle"
    /\ r3SourceCode' = [r3SourceCode EXCEPT ![u] = src]
    /\ additionalRequirement' = [additionalRequirement EXCEPT ![u] = req]
    /\ history' = [history EXCEPT ![u] = h]
    /\ currentHistory' = [currentHistory EXCEPT ![u] = <<StartRecord(src, req)>>]
    /\ calls' = [calls EXCEPT ![u] =
                    <<Request("specification", 0, SpecSystemMessage(docs, req),
                              SpecUserMessage(src))>>]
    /\ pc' = [pc EXCEPT ![u] = "spec"]
    /\ UNCHANGED <<docs, specification, s4Code, reviewIteration, reviewReport,
                   replies, ret, chainVars, callVars, text, askVars>>

\* llmService is called: copy the history, record the request, start phase 1
Start(u, src, req, h) ==
    /\ pc[u] = "idle"
    /\ r3SourceCode' = [r3SourceCode EXCEPT ![u] = src]
    /\ additionalRequirement' = [additionalRequirement EXCEPT ![u] = req]
    /\ history' = [history EXCEPT ![u] = h]
    /\ currentHistory' = [currentHistory EXCEPT ![u] = Append(h, StartRecord(src, req))]
    /\ calls' = [calls EXCEPT ![u] =
                    <<Request("specification", 0, SpecSystemMessage(docs, req),
                              SpecUserMessage(src))>>]
    /\ pc' = [pc EXCEPT ![u] = "spec"]
    /\ UNCHANGED <<docs, specification, s4Code, reviewIteration, reviewReport,
                   replies, ret, chainVars, callVars, text, askVars>>

Inputs == <<docs, r3SourceCode, additionalRequirement, history>>

\* mutant: the candidate is sent to the corrector without a review
ReviewRequestAsCorrection(u, code, spec, iteration) ==
    Request("correction", iteration,
            CorrectionSystemMessage(docs, additionalRequirement[u]),
            CorrectionUserMessage(r3SourceCode[u], spec, code, <<>>))

\* mutant: the review is asked about the candidate held before the new one
ReviewRequestStale(u, code, spec, iteration) ==
    Request("review", iteration,
            ReviewSystemMessage(docs, additionalRequirement[u]),
            ReviewUserMessage(s4Code[u], spec, r3SourceCode[u]))

ReviewRequest(u, code, spec, iteration) ==
    Request("review", iteration,
            ReviewSystemMessage(docs, additionalRequirement[u]),
            ReviewUserMessage(code, spec, r3SourceCode[u]))

\* the specification call is answered: phase 1 ends, phase 2 starts
SpecReply(u, resp) ==
    /\ pc[u] = "spec"
    /\ replies' = [replies EXCEPT ![u] = Append(@, resp)]
    /\ LET r == Receive(resp, LastCall(u).messages)
       IN  IF r.error
           THEN Throw(u, <<"Failed to generate specification: ">> \o r.message)
           ELSE /\ specification' = [specification EXCEPT ![u] = r.result]
                /\ currentHistory' = [currentHistory EXCEPT ![u] =
                                         Append(@, SpecRecord(r.result))]
                /\ calls' = [calls EXCEPT ![u] =
                       Append(@, Request("conversion", 0,
                           ConvSystemMessage(docs, additionalRequirement[u]),
                           ConvUserMessage(r3SourceCode[u], r.result)))]
                /\ pc' = [pc EXCEPT ![u] = "conv"]
                /\ UNCHANGED <<s4Code, reviewIteration, reviewReport, ret>>
    /\ UNCHANGED <<Inputs, chainVars, callVars, text, askVars>>

\* the conversion call is answered: phase 2 ends, the review loop is entered
ConvReply(u, resp) ==
    /\ pc[u] = "conv"
    /\ replies' = [replies EXCEPT ![u] = Append(@, resp)]
    /\ LET r == Receive(resp, LastCall(u).messages)
       IN  IF r.error
           THEN Throw(u, <<"Failed to convert code: ">> \o r.message)
           ELSE IF ~r.result.def
           THEN Throw(u, MatchTypeError)
           ELSE LET code == ExtractCode(r.result.s)
                IN  /\ s4Code' = [s4Code EXCEPT ![u] = code]
                    /\ currentHistory' = [currentHistory EXCEPT ![u] =
                                             Append(@, ConvRecord(code))]
                    /\ reviewIteration' = [reviewIteration EXCEPT ![u] = 0]
                    /\ calls' = [calls EXCEPT ![u] =
                           Append(@, ReviewRequest(u, code, specification[u], 1))]
                    /\ pc' = [pc EXCEPT ![u] = "review"]
                    /\ UNCHANGED <<specification, reviewReport, ret>>
    /\ UNCHANGED <<Inputs, chainVars, callVars, text, askVars>>

\* a review call of the loop is answered: return, or ask for the correction
ReviewReply(u, resp) ==
    /\ pc[u] = "review"
    /\ replies' = [replies EXCEPT ![u] = Append(@, resp)]
    /\ LET r == Receive(resp, LastCall(u).messages)
       IN  IF r.error
           THEN Throw(u, <<"Failed to review code: ">> \o r.message)
           ELSE IF ~r.result.def
           THEN Throw(u, MatchTypeError)
           ELSE LET report == r.result.s
                    h == Append(currentHistory[u],
                                ReviewRecord(reviewIteration[u] + 1, report))
                IN  /\ reviewReport' = [reviewReport EXCEPT ![u] = report]
                    /\ currentHistory' = [currentHistory EXCEPT ![u] = h]
                    /\ IF ~NeedsCorrection(report)
                       THEN /\ ret' = [ret EXCEPT ![u] =
                                   SuccessResult(s4Code[u], report, specification[u], h)]
                            /\ pc' = [pc EXCEPT ![u] = "done"]
                            /\ UNCHANGED calls
                       ELSE /\ calls' = [calls EXCEPT ![u] =
                                   Append(@, Request("correction", reviewIteration[u] + 1,
                                       CorrectionSystemMessage(docs, additionalRequirement[u]),
                                       CorrectionUserMessage(r3SourceCode[u], specification[u],
                                                             s4Code[u], report)))]
                            /\ pc' = [pc EXCEPT ![u] = "correct"]
                            /\ UNCHANGED ret
                    /\ UNCHANGED <<specification, s4Code, reviewIteration>>
    /\ UNCHANGED <<Inputs, chainVars, callVars, text, askVars>>

\* the correction call is answered: new candidate, next iteration; the loop
\* goes on with a review, or ends and the closing review is asked for
CorrectionReply(u, resp) ==
    /\ pc[u] = "correct"
    /\ replies' = [replies EXCEPT ![u] = Append(@, resp)]
    /\ LET r == Receive(resp, LastCall(u).messages)
       IN  IF r.error
           THEN Throw(u, <<"Failed to apply corrections in iteration ",
                           ToString(reviewIteration[u] + 1), ": ">> \o r.message)
           ELSE IF ~r.result.def
           THEN Throw(u, MatchTypeError)
           ELSE LET code == ExtractCode(r.result.s)
                    next == reviewIteration[u] + 1
                IN  /\ s4Code' = [s4Code EXCEPT ![u] = code]
                    /\ currentHistory' = [currentHistory EXCEPT ![u] =
                           Append(@, CorrectedRecord(reviewIteration[u] + 1, code))]
                    /\ reviewIteration' = [reviewIteration EXCEPT ![u] = next]
                    /\ calls' = [calls EXCEPT ![u] =
                           Append(@, ReviewRequest(u, code, specification[u], next + 1))]
                    /\ pc' = [pc EXCEPT ![u] =
                           IF LoopContinues(next) THEN "review" ELSE "final"]
                    /\ UNCHANGED <<specification, reviewReport, ret>>
    /\ UNCHANGED <<Inputs, chainVars, callVars, text, askVars>>

\* the closing review is answered: success with the warning
FinalReviewReply(u, resp) ==
    /\ pc[u] = "final"
    /\ replies' = [replies EXCEPT ![u] = Append(@, resp)]
    /\ LET r == Receive(resp, LastCall(u).messages)
       IN  IF r.error
           THEN Throw(u, <<"Failed to review code: ">> \o r.message)
           ELSE IF ~r.result.def
           THEN Throw(u, MatchTypeError)
           ELSE LET report == r.result.s
                    h == Append(currentHistory[u], FinalReviewRecord(report))
                IN  /\ reviewReport' = [reviewReport EXCEPT ![u] = report]
                    /\ currentHistory' = [currentHistory EXCEPT ![u] = h]
                    /\ ret' = [ret EXCEPT ![u] =
                           WarningResult(s4Code[u], report, specification[u], h)]
                    /\ pc' = [pc EXCEPT ![u] = "done"]
                    /\ UNCHANGED <<specification, s4Code, reviewIteration, calls>>
    /\ UNCHANGED <<Inputs, chainVars, callVars, text, askVars>>

\* -------------------------------------------- a caller chaining callLLM
ChainSystemMessages == {<<"system prompt A">>, <<"system prompt B">>}
ChainResponses == FailureResponses \cup {NoContentResponse, Content(<<"answer">>)}

\* one call of callLLM with the history the previous call returned; a
\* question whose call failed is asked again
ChainCall(systemMessage, resp) ==
    /\ chainCalls < MaxChainCalls
    /\ LET userMessage == <<"question ", ToString(Len(chainSent) + 1)>>
           r == Receive(resp, BuildMessages(systemMessage, userMessage, chainHistory))
       IN  /\ chainResult' = r
           /\ chainHistory' = IF r.error THEN chainHistory ELSE r.history
           /\ chainSent' = IF r.error THEN chainSent
                           ELSE Append(chainSent, Msg("user", userMessage))
    /\ chainCalls' = chainCalls + 1
    /\ UNCHANGED <<docs, unitVars, callVars, text, askVars>>

\* ------------------------------------------------------- specifications
\* one conversion unit
Next ==
    \/ \E src \in Sources, req \in Requirements, h \in Histories : Start(1, src, req, h)
    \/ \E resp \in SpecResponses : SpecReply(1, resp)
    \/ \E resp \in CodeResponses : ConvReply(1, resp)
    \/ \E resp \in ReviewResponses : ReviewReply(1, resp)
    \/ \E resp \in CodeResponses : CorrectionReply(1, resp)
    \/ \E resp \in ReviewResponses : FinalReviewReply(1, resp)

Spec == Init /\ [][Next]_vars

\* several units at once, interleaved at their await points
HttpFailure == Response("http", 500, "Internal Server Error", "upstream down", <<>>)
UnitSpecResponses == {HttpFailure, Content(<<"## S4 specification">>)}
UnitCodeResponses ==
    {HttpFailure,
     Content(<<"FENCE", "abap", "NL", "DATA(a) = 1.", "NL", "FENCE">>)}
UnitReviewResponses ==
    {HttpFailure,
     Content(<<"## Summary", "NL", "Needs Correction:", " ", "YES">>),
     Content(<<"## Summary", "NL", "Needs Correction:", " ", "NO">>)}

NextUnits ==
    \E u \in Units :
        \/ \E src \in Sources : Start(u, src, <<>>, <<>>)
        \/ \E resp \in UnitSpecResponses : SpecReply(u, resp)
        \/ \E resp \in UnitCodeResponses : ConvReply(u, resp)
        \/ \E resp \in UnitReviewResponses : ReviewReply(u, resp)
        \/ \E resp \in UnitCodeResponses : CorrectionReply(u, resp)
        \/ \E resp \in UnitReviewResponses : FinalReviewReply(u, resp)

SpecUnits == Init /\ [][NextUnits]_vars

\* ask calls llmService for the unit: the program's own step
Invoke ==
    \E src \in Sources, req \in Requirements, h \in Histories : Start(1, src, req, h)

\* one conversion unit that is eventually started. The fetch of callLLM is
\* given no signal and no timer, so only the endpoint's answer ends an await:
\* the reply actions are the endpoint's steps and carry no fairness
SpecLive == Init /\ [][Next]_vars /\ WF_vars(Invoke)

\* a caller of Transport alone
NextTransport ==
    \E systemMessage \in ChainSystemMessages, resp \in ChainResponses :
        ChainCall(systemMessage, resp)

SpecTransport == Init /\ [][NextTransport]_vars

\* ------------------------------------------ one invocation of callLLM
\* mutant: currentHistory is the caller's array itself, not a copy
CallerArrayAliased(systemMessage, userMessage, h) ==
    BuildMessages(systemMessage, userMessage, h)

\* const currentHistory = [...history]: unshift, push and splice act on the
\* copy, the array of the caller is left as it was
CallerArray(systemMessage, userMessage, h) == h

\* histories a caller may pass: none, a short one, 20 messages without a
\* system message, 20 messages that start with a system message
ArgHistories ==
    {<<>>,
     [i \in 1..2 |-> OldMessage(i)],
     [i \in 1..HISTORY_CAP |-> OldMessage(i)],
     [i \in 1..HISTORY_CAP |->
         IF i = 1 THEN Msg("system", <<"earlier system prompt">>) ELSE OldMessage(i)]}

UserMessages == {<<"question A">>, <<"question B">>}

\* answers with a status other than 200 whose body is a well-formed completion
Non200Responses ==
    {Response("content", 201, "Created", "{\"choices\": ...}", <<"answer">>),
     Response("content", 204, "No Content", "", <<"answer">>)}

CallResponses ==
    FailureResponses \cup Non200Responses
        \cup {NoContentResponse, Content(<<"answer">>)}

\* callLLM is called: the message list is built and the one fetch is issued
CallIssue(systemMessage, userMessage, h) ==
    /\ callPc \in {"idle", "returned"}
    /\ callPc' = "awaiting"
    /\ callArg' = h
    /\ callArgAfter' = CallerArray(systemMessage, userMessage, h)
    /\ callSent' = BuildMessages(systemMessage, userMessage, h)
    /\ callFetches' = 1
    /\ callResp' = Response("none", 0, "", "", <<>>)
    /\ callResult' = NoResult
    /\ UNCHANGED <<docs, unitVars, chainVars, text, askVars>>

\* the fetch settles and callLLM returns
CallSettle(resp) ==
    /\ callPc = "awaiting"
    /\ callPc' = "returned"
    /\ callResp' = resp
    /\ callResult' = Receive(resp, callSent)
    /\ UNCHANGED <<callArg, callArgAfter, callSent, callFetches>>
    /\ UNCHANGED <<docs, unitVars, chainVars, text, askVars>>

NextCall ==
    \/ \E systemMessage \in ChainSystemMessages, userMessage \in UserMessages,
          h \in ArgHistories : CallIssue(systemMessage, userMessage, h)
    \/ \E resp \in CallResponses : CallSettle(resp)

SpecCall == Init /\ [][NextCall]_vars

\* ------------------------------- the parsing steps on every short reply
Seqs(A, n) == UNION {[1..k -> A] : k \in 0..n}

ReportAlphabet ==
    {"Needs Correction:", "needs correction:", " ", "YES", "yes", "NO", "x"}
Reports == Seqs(ReportAlphabet, MaxReportLen)

CodeAlphabet == {"FENCE", "abap", "NL", "x"}
CodeTexts == Seqs(CodeAlphabet, MaxCodeLen)

YesReply == Content(<<"## Summary", "NL", "Needs Correction:", " ", "YES">>)

SpecAnswer == Content(<<"## S4 specification">>)

\* one unit up to its first correction; the conversion, the first review and
\* the first correction are answered with the content under test
NextParse ==
    \/ Start(1, <<"REPORT zr3.">>, <<>>, <<>>)
    \/ SpecReply(1, SpecAnswer)
    \/ ConvReply(1, Content(text))
    \/ /\ reviewIteration[1] = 0
       /\ \E resp \in {Content(text), YesReply} : ReviewReply(1, resp)
    \/ CorrectionReply(1, Content(text))

InitVerdict == docs = <<>> /\ \E t \in Reports : Idle(t)
SpecVerdict == InitVerdict /\ [][NextParse]_vars

InitExtract == docs = <<>> /\ \E t \in CodeTexts : Idle(t)
SpecExtract == InitExtract /\ [][NextParse]_vars

\* ------------------------------------------------------------------- ask
\* mutant: a file that was not saved ends the loop
AfterFileStopOnFailure(f, o) ==
    IF o # "saved" \/ f = NUnits THEN "finished" ELSE "loop"

\* for (const file of abapFiles): on to the next file, whatever the
\* iteration's outcome, until the last one
AfterFile(f, o) == IF f = NUnits THEN "finished" ELSE "loop"

\* the iteration of the current file ends with outcome o
EndIteration(o) ==
    /\ outcome' = [outcome EXCEPT ![file] = o]
    /\ askPc' = AfterFile(file, o)
    /\ file' = file + 1
    /\ UNCHANGED <<additionalRequirements, docs, unitVars, chainVars, callVars, text>>

\* the prompt is answered, the output folder is made and the folder is read:
\* the loop starts on the list of files, or ask ends before the loop (the
\* outer catch block, or no file found)
AskStart(req, ok) ==
    /\ askPc = "idle"
    /\ askPc' = IF ok THEN "loop" ELSE "aborted"
    /\ additionalRequirements' = req
    /\ UNCHANGED <<file, outcome, docs, unitVars, chainVars, callVars, text>>

\* fs.readFile throws: the inner catch block, then the next file
ReadFails ==
    /\ askPc = "loop"
    /\ pc[file] = "idle"
    /\ EndIteration("readFailed")

\* fs.readFile gave src: llmService(r3SourceCode, additionalRequirements, [])
Submit(src) ==
    /\ askPc = "loop"
    /\ Start(file, src, additionalRequirements, <<>>)

\* llmService has returned: continue on an error result, else write the
\* files; a write throws when the file system refuses it or when the
\* specification to write is undefined
HandleResult(writeOk) ==
    /\ askPc = "loop"
    /\ pc[file] = "done"
    /\ EndIteration(IF ret[file].kind = "error" THEN "errorResult"
                    ELSE IF ~ret[file].specification.def \/ ~writeOk
                         THEN "writeFailed"
                         ELSE "saved")

\* what fs.readFile gives for a file that can be read
AskSources == {<<"REPORT zr3.">>}
AskSpecResponses == UnitSpecResponses \cup {NoContentResponse}

NextAsk ==
    \/ \E req \in Requirements, ok \in BOOLEAN : AskStart(req, ok)
    \/ ReadFails
    \/ \E src \in AskSources : Submit(src)
    \/ askPc = "loop" /\ \E resp \in AskSpecResponses : SpecReply(file, resp)
    \/ askPc = "loop" /\ \E resp \in UnitCodeResponses : ConvReply(file, resp)
    \/ askPc = "loop" /\ \E resp \in UnitReviewResponses : ReviewReply(file, resp)
    \/ askPc = "loop" /\ \E resp \in UnitCodeResponses : CorrectionReply(file, resp)
    \/ askPc = "loop" /\ \E resp \in UnitReviewResponses : FinalReviewReply(file, resp)
    \/ \E writeOk \in BOOLEAN : HandleResult(writeOk)

SpecAsk == Init /\ [][NextAsk]_vars


\* ================================================================ claims
\* what is expected of the model, stated without the model's own parsers

Done(u) == pc[u] = "done"
CallsOf(u, phase) == {i \in 1..Len(calls[u]) : calls[u][i].phase = phase}
NCalls(u, phase) == Cardinality(CallsOf(u, phase))
\* index, among all calls of the unit, of the n-th call of a phase
NthCall(u, phase, n) ==
    CHOOSE i \in CallsOf(u, phase) :
        Cardinality({j \in CallsOf(u, phase) : j <= i}) = n
Answered(u, i) == i <= Len(replies[u])
HasContent(u, i) == Answered(u, i) /\ replies[u][i].kind = "content"
Failing(resp) == resp.kind \notin {"content", "nocontent"} \/ resp.status # HTTP_OK
Last(q) == q[Len(q)]

SaysYes(c) ==
    \E i \in 1..(Len(c) - 2) :
        c[i] = "Needs Correction:" /\ c[i + 1] = " " /\ c[i + 2] = "YES"
SaysNo(c) ==
    \E i \in 1..(Len(c) - 2) :
        c[i] = "Needs Correction:" /\ c[i + 1] = " " /\ c[i + 2] = "NO"

\* the code each reply of CodeResponses carries
ExpectedCode(c) ==
    CASE c = <<"FENCE", "abap", "NL", "DATA(a) = 1.", "NL", "FENCE">>
            -> <<"DATA(a) = 1.">>
      [] c = <<"Here is the code:", "NL", "FENCE", "abap", "NL", "DATA(b) = 2.",
               "NL", "FENCE", "NL", "Done.">>
            -> <<"DATA(b) = 2.">>
      [] OTHER -> c
CodeFrom(u, i) == ExpectedCode(replies[u][i].content)

IsSuccess(u) == ret[u].kind = "result"
HasWarning(u) == "warning" \in ret[u].fields
IsFailed(u) == ret[u].kind = "error"

\* every call so far was answered with a usable reply (the specification
\* reply may lack a content), and every review reply says YES
AllYesSoFar(u) ==
    /\ Len(replies[u]) >= 2
    /\ ~Failing(replies[u][1])
    /\ \A i \in 2..Len(replies[u]) :
          /\ replies[u][i].kind = "content"
          /\ calls[u][i].phase = "review" => SaysYes(replies[u][i].content)

\* C1: when every call succeeds and every review says YES, the unit makes
\* exactly 3 correction calls and 4 review calls and ends in a success that
\* carries the warning and the code of the third correction; on the way it
\* never has more than 3 correction calls or 4 review calls, and it is
\* suspended only while a call is awaiting its answer.
C1_LoopBound ==
    \A u \in Units :
        AllYesSoFar(u) =>
            /\ NCalls(u, "correction") <= MAX_REVIEW_ITERATIONS
            /\ NCalls(u, "review") <= MAX_REVIEW_ITERATIONS + 1
            /\ ~Done(u) => Len(calls[u]) = Len(replies[u]) + 1
            /\ Done(u) =>
                  /\ NCalls(u, "correction") = 3
                  /\ NCalls(u, "review") = 4
                  /\ IsSuccess(u) /\ HasWarning(u)
                  /\ ret[u].warning = WarningText
                  /\ ret[u].finalS4Code = CodeFrom(u, NthCall(u, "correction", 3))

C1_Witness ==
    \E u \in Units :
        /\ AllYesSoFar(u) /\ Done(u) /\ HasWarning(u)
        /\ NCalls(u, "correction") = 3
        /\ CodeFrom(u, NthCall(u, "correction", 3))
              # CodeFrom(u, NthCall(u, "correction", 2))

\* reviews 1 and 2 say YES, review 3 says NO, every call succeeds
ScenarioC(u) ==
    /\ Done(u)
    /\ NCalls(u, "review") >= 3
    /\ ~Failing(replies[u][1])
    /\ \A i \in 2..Len(replies[u]) : replies[u][i].kind = "content"
    /\ SaysYes(replies[u][NthCall(u, "review", 1)].content)
    /\ SaysYes(replies[u][NthCall(u, "review", 2)].content)
    /\ SaysNo(replies[u][NthCall(u, "review", 3)].content)

\* C2: with the verdicts YES, YES, NO the unit makes exactly two correction
\* calls and returns, without a warning, the code of the second correction.
C2_ScenarioC ==
    \A u \in Units :
        ScenarioC(u) =>
            /\ NCalls(u, "correction") = 2
            /\ NCalls(u, "review") = 3
            /\ IsSuccess(u) /\ ~HasWarning(u)
            /\ ret[u].finalS4Code = CodeFrom(u, NthCall(u, "correction", 2))

C2_Witness ==
    \E u \in Units :
        /\ ScenarioC(u) /\ IsSuccess(u)
        /\ CodeFrom(u, NthCall(u, "correction", 2))
              # CodeFrom(u, NthCall(u, "correction", 1))

\* specification and conversion succeed and the first review says NO
ScenarioB(u) ==
    /\ Len(replies[u]) >= 3
    /\ ~Failing(replies[u][1])
    /\ replies[u][2].kind = "content"
    /\ replies[u][3].kind = "content"
    /\ SaysNo(replies[u][3].content)

\* C3: when the first review says NO the unit is done after one review call
\* and no correction call, and returns the code of the conversion reply.
C3_ScenarioB ==
    \A u \in Units :
        ScenarioB(u) =>
            /\ Done(u) /\ IsSuccess(u) /\ ~HasWarning(u)
            /\ Len(calls[u]) = 3
            /\ NCalls(u, "review") = 1
            /\ NCalls(u, "correction") = 0
            /\ ret[u].finalS4Code = CodeFrom(u, 2)

C3_Witness ==
    \E u \in Units :
        /\ ScenarioB(u) /\ IsSuccess(u)
        /\ CodeFrom(u, 2) # replies[u][2].content

\* the specification call was answered with a status other than 200
ScenarioA(u) ==
    /\ Len(replies[u]) >= 1
    /\ replies[u][1].kind = "http"
    /\ replies[u][1].status # HTTP_OK

\* C4: a non-200 answer to the specification call ends the unit Failed; the
\* last entry of the returned history is the record of the failure message,
\* and the specification call is the only call ever issued.
C4_ScenarioA ==
    \A u \in Units :
        ScenarioA(u) =>
            /\ Done(u) /\ IsFailed(u)
            /\ Len(calls[u]) = 1
            /\ calls[u][1].phase = "specification"
            /\ Len(ret[u].history) = Len(history[u]) + 2
            /\ Last(ret[u].history).role = "assistant"
            /\ Last(ret[u].history).content =
                  <<"Error during conversion: ", "Failed to generate specification: ",
                    "LLM API Error: ", replies[u][1].statusText, " - ",
                    replies[u][1].text>>

C4_Witness ==
    \E u \in Units :
        ScenarioA(u) /\ replies[u][1].status = 500 /\ IsFailed(u)

\* C5: the promise of llmService is never rejected; once the unit is done it
\* holds a success result or an error result with a message and a history.
C5_NeverThrows ==
    \A u \in Units :
        /\ ret[u].kind # "rejected"
        /\ Done(u) =>
              \/ IsSuccess(u)
              \/ IsFailed(u) /\ ret[u].message # <<>> /\ ret[u].history # <<>>
        /\ ~Done(u) => ret[u].kind = "pending"

\* an exception raised while a reply is processed: the message of the
\* conversion, review or correction reply has no content
C5_Witness ==
    \E u \in Units :
        /\ Done(u) /\ IsFailed(u)
        /\ Len(replies[u]) >= 2
        /\ Last(replies[u]).kind = "nocontent"

\* a call whose failure the propagation policy names: the specification
\* call, the conversion call, a review call of the loop
PolicyCall(u, i) ==
    \/ calls[u][i].phase \in {"specification", "conversion"}
    \/ calls[u][i].phase = "review" /\ calls[u][i].iteration <= MAX_REVIEW_ITERATIONS

C6_State ==
    \A u \in Units :
        \A i \in 1..Len(replies[u]) :
            (Failing(replies[u][i]) /\ PolicyCall(u, i)) =>
                /\ Done(u) /\ IsFailed(u)
                /\ ret[u].fields = {}
                /\ ret[u].finalS4Code = <<>> /\ ret[u].finalReviewReport = <<>>
                /\ Len(calls[u]) = i

C6_Absorbing ==
    \A u \in Units :
        IsFailed(u) =>
            /\ ret'[u] = ret[u] /\ pc'[u] = pc[u]
            /\ calls'[u] = calls[u] /\ replies'[u] = replies[u]
            /\ currentHistory'[u] = currentHistory[u]

\* C6: a failing specification, conversion or loop review call ends the unit
\* Failed, the result has none of the output fields, the failing call is the
\* last call issued, and a Failed unit never changes again.
C6_FatalFailures == [](C6_State) /\ [][C6_Absorbing]_vars

C6_Witness ==
    \E u \in Units :
        /\ IsFailed(u)
        /\ Len(replies[u]) = 5
        /\ calls[u][5].phase = "review"
        /\ Failing(replies[u][5])
        /\ specification[u].def /\ s4Code[u] # <<>>

\* the text of the error a reply leads to
ErrorText(resp) ==
    CASE resp.kind \in {"reject", "http", "http_notext", "badjson"} -> resp.text
      [] resp.kind \in {"null", "nomessage"} -> "LLM response was empty or malformed."
      [] resp.kind = "nochoices" -> "Cannot read properties of undefined (reading '0')"
      [] resp.kind = "emptychoices" ->
            "Cannot read properties of undefined (reading 'message')"
      [] OTHER -> "Cannot read properties of undefined (reading 'match')"

\* the record the history must hold for call i, answered by replies[u][i]
AuditRecordOK(u, i) ==
    LET rec == currentHistory[u][Len(history[u]) + 1 + i]
        call == calls[u][i]
        resp == replies[u][i]
        c == rec.content
    IN  /\ rec.role = "assistant"
        /\ IF IsFailed(u) /\ i = Len(calls[u])
           THEN c[1] = "Error during conversion: " /\ Last(c) = ErrorText(resp)
           ELSE CASE call.phase = "specification" ->
                       /\ c[1] = "**Generated S4 Specification:**"
                       /\ SubSeq(c, 3, Len(c)) =
                             (IF resp.kind = "content" THEN resp.content
                                                       ELSE <<"undefined">>)
                  [] call.phase = "conversion" ->
                       /\ c[1] = "**Initial S4 Code Conversion:**"
                       /\ SubSeq(c, 6, Len(c) - 2) = ExpectedCode(resp.content)
                  [] call.phase = "correction" ->
                       /\ c[1] = "**Corrected S4 Code (Iteration "
                       /\ c[2] = ToString(call.iteration)
                       /\ SubSeq(c, 8, Len(c) - 2) = ExpectedCode(resp.content)
                  [] call.phase = "review" /\ call.iteration <= MAX_REVIEW_ITERATIONS ->
                       /\ c[1] = "**Code Review Report (Iteration "
                       /\ c[2] = ToString(call.iteration)
                       /\ SubSeq(c, 5, Len(c)) = resp.content
                  [] OTHER ->
                       /\ c[1] = "**Final Review Report after "
                       /\ SubSeq(c, 5, Len(c)) = resp.content

ClosingAnswered(u) ==
    /\ NCalls(u, "correction") >= MAX_REVIEW_ITERATIONS
    /\ HasContent(u, NthCall(u, "correction", MAX_REVIEW_ITERATIONS))
    /\ HasContent(u, NthCall(u, "correction", MAX_REVIEW_ITERATIONS) + 1)

\* C8: as soon as the third correction is made a closing review call is
\* issued, and whatever that review says the unit returns a success with the
\* warning and the third corrected code, and makes no fourth correction.
C8_ClosingReview ==
    \A u \in Units :
        /\ (NCalls(u, "correction") >= MAX_REVIEW_ITERATIONS
            /\ HasContent(u, NthCall(u, "correction", MAX_REVIEW_ITERATIONS))) =>
              /\ Len(calls[u]) = NthCall(u, "correction", MAX_REVIEW_ITERATIONS) + 1
              /\ Last(calls[u]).phase = "review"
        /\ ClosingAnswered(u) =>
              /\ Done(u) /\ IsSuccess(u) /\ HasWarning(u)
              /\ ret[u].warning = WarningText
              /\ NCalls(u, "correction") = MAX_REVIEW_ITERATIONS
              /\ ret[u].finalS4Code =
                    CodeFrom(u, NthCall(u, "correction", MAX_REVIEW_ITERATIONS))
              /\ ret[u].finalReviewReport = Last(replies[u]).content

\* the closing review says NO
C8_Witness ==
    \E u \in Units :
        ClosingAnswered(u) /\ SaysNo(Last(replies[u]).content) /\ HasWarning(u)

SystemIndexes(h) == {i \in 1..Len(h) : h[i].role = "system"}
Suffix(q, n) == SubSeq(q, Len(q) - n + 1, Len(q))

C9_State ==
    /\ Len(chainHistory) <= HISTORY_CAP
    /\ Cardinality(SystemIndexes(chainHistory)) <= 1
    /\ chainHistory # <<>> => SystemIndexes(chainHistory) = {1}
    /\ LET kept == IF Len(chainSent) < HISTORY_CAP - 1
                   THEN Len(chainSent) ELSE HISTORY_CAP - 1
       IN  SubSeq(chainHistory, 2, Len(chainHistory)) = Suffix(chainSent, kept)
    /\ chainSent # <<>> => Last(chainHistory) = Last(chainSent)

C9_Step == chainHistory # <<>> => chainHistory'[1] = chainHistory[1]

\* C9: a history that starts empty and is fed from each callLLM call to the
\* next holds one system message, in first place and never replaced, and at
\* most 20 messages; the others are the most recent user messages in order,
\* so the messages evicted are the oldest non-system ones and the last user
\* message is always kept.
C9_HistoryInvariant == [](C9_State) /\ [][C9_Step]_vars

\* the cap was exceeded and messages were evicted
C9_Witness ==
    /\ Len(chainSent) > HISTORY_CAP
    /\ Len(chainHistory) = HISTORY_CAP
    /\ chainHistory[2] # chainSent[1]

\* C10: whenever llmService is given a history of at most 20 messages, the
\* history it returns holds at most 20 messages.
C10_ReturnedHistoryCapped ==
    \A u \in Units :
        (Done(u) /\ Len(history[u]) <= HISTORY_CAP) =>
            Len(ret[u].history) <= HISTORY_CAP

\* ---------------------------------------------------------------- callLLM
Returned == callPc = "returned"
ResultShape == {"error", "message", "result", "history"}

\* C11: a successful callLLM returns a history that ends with the new user
\* message followed by the assistant message the model answered.
C11_ReturnsExchange ==
    (Returned /\ ~callResult.error) =>
        LET h == callResult.history
        IN  /\ Len(h) >= 2
            /\ h[Len(h) - 1] = Last(callSent)
            /\ Last(h).role = "assistant"
            /\ callResp.kind = "content" => Last(h).content = callResp.content

\* C12: whatever the outcome, the history array the caller passed to callLLM
\* holds after the call the messages it held before, in the same order.
C12_CallerHistoryUntouched ==
    callPc # "idle" => callArgAfter = callArg

\* a call that both prepends a system message and evicts
C12_Witness ==
    /\ Returned
    /\ Len(callArg) = HISTORY_CAP
    /\ SystemIndexes(callArg) = {}
    /\ Len(callSent) = HISTORY_CAP
    /\ callSent[1].role = "system"
    /\ callSent[2] # callArg[1]

NoUsableMessage(resp) ==
    resp.status = HTTP_OK /\ resp.kind \in {"nochoices", "emptychoices", "nomessage"}

\* C14: an HTTP 200 answer whose body has no choices list, an empty one, or
\* a first choice without message makes callLLM return the failure 'empty or
\* malformed response', not the network or parsing error.
C14_MalformedClassified ==
    (Returned /\ NoUsableMessage(callResp)) =>
        /\ callResult.error
        /\ callResult.message = <<"LLM response was empty or malformed.">>

\* C15: callLLM always returns a value; a rejected request, a body that cannot
\* be decoded and an unreadable error body are returned as an error classified
\* as network or parsing error.
C15_TransportNeverThrows ==
    Returned =>
        /\ DOMAIN callResult = ResultShape
        /\ callResp.kind \in {"reject", "badjson", "http_notext"} =>
              /\ callResult.error
              /\ callResult.message =
                    <<"Network or parsing error during LLM call: ", callResp.text>>

C15_Witness ==
    Returned /\ callResp.kind = "http_notext" /\ callResult.error

\* C16: an invocation of callLLM issues one network request, also when the
\* answer is a failure, and only an answer with status 200 is a success.
C16_OneRequest ==
    /\ callPc # "idle" => callFetches = 1
    /\ Returned =>
          /\ ~callResult.error => callResp.status = HTTP_OK
          /\ (callResp.kind # "reject" /\ callResp.status # HTTP_OK) =>
                /\ callResult.error
                /\ callResult.message[1] = "LLM API Error: "
                      \/ callResp.kind = "http_notext"

\* a 201 answer with a well-formed completion is a failure
C16_Witness ==
    /\ Returned /\ callFetches = 1
    /\ callResp.status = 201 /\ callResp.kind = "content"
    /\ callResult.error

\* the record the unit's history got for its k-th call
PhaseRecord(u, k) == currentHistory[u][Len(history[u]) + 1 + k]
InList(m, q) == \E j \in 1..Len(q) : q[j] = m

\* C13: the message list a phase sends to the model contains the messages
\* that the earlier phases of the unit recorded in the unit's history.
C13_HistorySent ==
    \A u \in Units :
        \A i \in 2..Len(calls[u]) :
            \A k \in 1..(i - 1) : InList(PhaseRecord(u, k), calls[u][i].messages)

\* ------------------------------------------------------------- parsing
HeadTokens == {"Needs Correction:", "needs correction:", "NEEDS CORRECTION:"}
YesTokens == {"YES", "yes", "Yes"}
NoTokens == {"NO", "no", "No"}

\* r has at i a verdict line whose verdict, at j, is one of V
VerdictLine(r, i, j, V) ==
    /\ r[i] \in HeadTokens
    /\ r[j] \in V
    /\ \A k \in (i + 1)..(j - 1) : r[k] \in {" ", "NL"}
HasLine(r, V) ==
    \E i \in 1..Len(r) : \E j \in (i + 1)..Len(r) : VerdictLine(r, i, j, V)
\* the first verdict line of r has a verdict of V
FirstLine(r, V) ==
    \E i \in 1..Len(r) : \E j \in (i + 1)..Len(r) :
        /\ VerdictLine(r, i, j, V)
        /\ \A i2 \in 1..(i - 1) : \A j2 \in (i2 + 1)..Len(r) :
              ~VerdictLine(r, i2, j2, YesTokens \cup NoTokens)

\* the first review of unit u was answered with the report r
FirstReviewAnswered(u, r) ==
    /\ Len(replies[u]) = 3
    /\ replies[u][3].kind = "content"
    /\ replies[u][3].content = r
AsksCorrection(u) == pc[u] = "correct" /\ NCalls(u, "correction") = 1
Approves(u) == Done(u) /\ IsSuccess(u) /\ NCalls(u, "correction") = 0

\* C17: a report with the line 'Needs Correction: YES', in any letter case,
\* asks for a correction; one with 'Needs Correction: NO' does not; one with
\* no verdict line does not.  When a report has several verdict lines the
\* first one decides.
C17_VerdictParsing ==
    \A u \in Units :
        FirstReviewAnswered(u, text) =>
            /\ (HasLine(text, YesTokens) /\ ~HasLine(text, NoTokens)) => AsksCorrection(u)
            /\ (HasLine(text, NoTokens) /\ ~HasLine(text, YesTokens)) => Approves(u)
            /\ ~HasLine(text, YesTokens \cup NoTokens) => Approves(u)
            /\ FirstLine(text, YesTokens) => AsksCorrection(u)
            /\ FirstLine(text, NoTokens) => Approves(u)

\* a lower-case verdict after other text
C17_Witness ==
    \E u \in Units :
        /\ FirstReviewAnswered(u, text)
        /\ text = <<"x", "needs correction:", " ", "yes">>
        /\ AsksCorrection(u)

\* the code block of c opens at i and its closing fence is at j: the first
\* fence at the start of a line after the opening line
Block(c, i, j) ==
    /\ c[i] = "FENCE" /\ c[i + 1] = "abap" /\ c[i + 2] = "NL"
    /\ c[j] = "FENCE" /\ c[j - 1] = "NL"
    /\ \A k \in (i + 3)..(j - 1) : ~(c[k] = "FENCE" /\ c[k - 1] = "NL")
Blocks(c) ==
    {b \in (1..Len(c)) \X (1..Len(c)) :
        b[1] + 3 <= b[2] /\ Block(c, b[1], b[2])}
HasBlock(c) == Blocks(c) # {}
FirstBlock(c) == CHOOSE b \in Blocks(c) : \A d \in Blocks(c) : b[1] <= d[1]
\* the lines between the opening line and the closing fence
InnerText(c) ==
    LET b == FirstBlock(c) IN SubSeq(c, b[1] + 3, b[2] - 2)

\* the last answer unit u got is the answer, with content c, to a conversion
\* or correction call
CodeAnswered(u, c) ==
    /\ replies[u] # <<>>
    /\ Len(replies[u]) = Len(calls[u]) - 1 \/ Done(u)
    /\ calls[u][Len(replies[u])].phase \in {"conversion", "correction"}
    /\ Last(replies[u]).kind = "content"
    /\ Last(replies[u]).content = c

\* C18: when a conversion or correction reply contains a code block fenced
\* with the abap tag, the candidate code is the inner text of that block,
\* whatever that text is: the lines between the opening line and the closing
\* fence, without the fence markers that delimit them.
C18_ExtractsInnerText ==
    \A u \in Units :
        (CodeAnswered(u, text) /\ HasBlock(text)) => s4Code[u] = InnerText(text)

\* C19: when a conversion or correction reply contains no fenced code block,
\* the candidate code is the whole reply and the unit goes on to the review.
C19_Fallback ==
    \A u \in Units :
        (CodeAnswered(u, text) /\ ~HasBlock(text)) =>
            /\ s4Code[u] = text
            /\ ~IsFailed(u)
            /\ pc[u] = "review"

\* an opening fence that is never closed, in a correction reply
C19_Witness ==
    \E u \in Units :
        /\ CodeAnswered(u, text) /\ ~HasBlock(text)
        /\ NCalls(u, "correction") = 1
        /\ Len(text) >= 4 /\ text[1] = "FENCE" /\ text[2] = "abap" /\ text[3] = "NL"
        /\ s4Code[u] = text

\* C20: every call of Transport completes even when the endpoint never
\* answers, so every unit that was started eventually reaches Done or Failed
C20_UnitTerminates == \A u \in Units : (pc[u] # "idle") ~> Done(u)

\* the phase the i-th call of a run is expected to be
ExpectedPhase(i) ==
    IF i = 1 THEN "specification"
    ELSE IF i = 2 THEN "conversion"
    ELSE IF i % 2 = 1 THEN "review" ELSE "correction"

InFlight(u) == Len(calls[u]) - Len(replies[u])

C23_State ==
    \A u \in Units :
        /\ InFlight(u) \in {0, 1}
        /\ \A i \in 1..Len(calls[u]) : calls[u][i].phase = ExpectedPhase(i)

C23_Step ==
    \A u \in Units :
        calls'[u] # calls[u] =>
            /\ Len(calls'[u]) = Len(calls[u]) + 1
            /\ SubSeq(calls'[u], 1, Len(calls[u])) = calls[u]
            /\ Len(replies'[u]) = Len(calls[u])

\* C23: within one run at most one call is in flight at any time; the calls
\* are issued in the order specification, conversion, then review and
\* correction alternating starting with review, and a call is issued only
\* in a step at which every earlier call has been answered.
C23_SequentialPhases == [](C23_State) /\ [][C23_Step]_vars

\* a run that went through all nine calls
C23_Witness ==
    \E u \in Units :
        /\ Done(u) /\ Len(calls[u]) = 9 /\ InFlight(u) = 0
        /\ calls[u][8].phase = "correction" /\ calls[u][9].phase = "review"

\* C25: call budget of one run, whatever the replies: at most 3 correction
\* calls, at most one review call more than correction calls, and at most 9
\* calls in all (1 specification, 1 conversion, 4 review, 3 correction).
C25_CallBudget ==
    \A u \in Units :
        /\ NCalls(u, "correction") <= 3
        /\ NCalls(u, "review") <= NCalls(u, "correction") + 1
        /\ Len(calls[u]) <= 9
        /\ NCalls(u, "specification") <= 1
        /\ NCalls(u, "conversion") <= 1
        /\ NCalls(u, "review") <= 4

\* the budget is exhausted: nine calls, three of them corrections
C25_Witness ==
    \E u \in Units :
        /\ Len(calls[u]) = 9
        /\ NCalls(u, "correction") = 3 /\ NCalls(u, "review") = 4
        /\ NCalls(u, "specification") = 1 /\ NCalls(u, "conversion") = 1

\* the user message of the i-th call of unit u
UserMessageOf(u, i) == Last(calls[u][i].messages).content

\* the i-th call of unit u is a review of candidate code, and report is the
\* content of its reply
ReviewOf(u, i, code, report) ==
    /\ calls[u][i].phase = "review"
    /\ UserMessageOf(u, i) = ReviewUserMessage(code, specification[u], r3SourceCode[u])
    /\ Answered(u, i)
    /\ replies[u][i].kind = "content"
    /\ replies[u][i].content = report

\* C24: in every successful result, with or without warning, the returned
\* finalReviewReport is the reply to the review call that was sent the
\* returned finalS4Code, and that call is the last call of the run.
C24_ReportMatchesCode ==
    \A u \in Units :
        IsSuccess(u) =>
            /\ calls[u] # <<>>
            /\ ReviewOf(u, Len(calls[u]), ret[u].finalS4Code, ret[u].finalReviewReport)

\* success after corrections that changed the candidate each time
C24_Witness ==
    \E u \in Units :
        /\ IsSuccess(u) /\ HasWarning(u)
        /\ ret[u].finalS4Code # CodeFrom(u, 6)
        /\ CodeFrom(u, 6) # CodeFrom(u, 4)
        /\ ReviewOf(u, 7, CodeFrom(u, 6), replies[u][7].content)

\* the i-th call of unit u is a correction call, or the closing review made
\* after the third correction, and its reply is a failure
LateFailure(u, i) ==
    /\ Answered(u, i)
    /\ Failing(replies[u][i])
    /\ \/ calls[u][i].phase = "correction"
       \/ calls[u][i].phase = "review" /\ NCalls(u, "correction") = 3 /\ i = Len(calls[u])

\* C26: when a correction call or the closing review fails, the run is over
\* and failed: the result is the error result, it carries no code, no
\* report and no specification, and the failed call is the last call issued.
C26_LateFailureFails ==
    \A u \in Units : \A i \in 1..Len(calls[u]) :
        LateFailure(u, i) =>
            /\ Done(u) /\ IsFailed(u)
            /\ ret[u].fields = {}
            /\ ret[u].finalS4Code = <<>>
            /\ i = Len(calls[u]) /\ i = Len(replies[u])
            /\ s4Code[u] # <<>>

\* the closing review fails after three corrections
C26_Witness ==
    \E u \in Units :
        /\ LateFailure(u, 9) /\ calls[u][9].phase = "review"
        /\ s4Code[u] = CodeFrom(u, 8) /\ IsFailed(u)

\* the record a run starts with, written from the unit's inputs
IsStartRecord(m, u) ==
    /\ m.role = "user"
    /\ m.content =
           <<"Please start the R3 to S4 conversion process for the following R3 code:",
             "NL", "FENCE", "abap", "NL">> \o r3SourceCode[u]
           \o <<"NL", "FENCE", "NL", "Additional requirements: ">>
           \o additionalRequirement[u]

C27_State ==
    \A u \in Units :
        Done(u) =>
            LET n == Len(history[u])
                h == ret[u].history
            IN  /\ ret[u].kind \in {"result", "error"}
                /\ Len(h) > n
                /\ SubSeq(h, 1, n) = history[u]
                /\ IsStartRecord(h[n + 1], u)

C27_Step == \A u \in Units : pc[u] # "idle" => history'[u] = history[u]

\* C27: the caller's history array is not changed by the run, and in every
\* terminal state the returned history is the caller's history, unmodified,
\* followed first by the user record that starts the conversion.
C27_CallerHistoryPrefix == [](C27_State) /\ [][C27_Step]_vars

\* a caller history already at the cap, returned in front of a full run
C27_Witness ==
    \E u \in Units :
        /\ Done(u) /\ IsSuccess(u) /\ HasWarning(u)
        /\ Len(history[u]) = HISTORY_CAP
        /\ Len(ret[u].history) = HISTORY_CAP + 10

\* everything a run owns
UnitState(u) ==
    <<pc[u], r3SourceCode[u], additionalRequirement[u], history[u],
      currentHistory[u], specification[u], s4Code[u], reviewIteration[u],
      reviewReport[u], calls[u], replies[u], ret[u]>>

SameInputs(u, v) ==
    /\ pc[u] # "idle" /\ pc[v] # "idle"
    /\ r3SourceCode[u] = r3SourceCode[v]
    /\ additionalRequirement[u] = additionalRequirement[v]
    /\ history[u] = history[v]

\* runs given the same inputs and the same replies are in the same state,
\* whatever the other runs did in between
C22_State ==
    \A u, v \in Units :
        (SameInputs(u, v) /\ replies[u] = replies[v]) => UnitState(u) = UnitState(v)

\* a step of one run changes nothing that another run owns, and no step
\* writes the knowledge excerpt
C22_Step ==
    /\ docs' = docs
    /\ \A u, v \in Units :
           (u # v /\ UnitState(u)' # UnitState(u)) => UnitState(v)' = UnitState(v)

\* C22: when runs are interleaved arbitrarily at their await points, the
\* result and the history of each run depend only on its own inputs and on
\* the replies to its own calls; the runs share only the knowledge excerpt,
\* which no run writes.
C22_UnitsIndependent == [](C22_State) /\ [][C22_Step]_vars

\* two runs on different sources, one failed at a correction while the other
\* went on to the warning
C22_Witness ==
    /\ Done(1) /\ Done(2)
    /\ r3SourceCode[1] # r3SourceCode[2]
    /\ IsFailed(1) /\ NCalls(1, "correction") = 2
    /\ IsSuccess(2) /\ HasWarning(2)

Submitted(f) == pc[f] # "idle"
Processed(f) == outcome[f] # "none"

\* C21 as stated: when ask has gone through its list, every file of the
\* list was submitted for conversion
C21_EveryFileSubmitted ==
    askPc = "finished" => \A f \in Units : Submitted(f)

\* C21, amended: a failure of one file does not abort its siblings. The
\* loop ends only after the last file; by then every file of the list was
\* taken up, whatever the outcome of the files before it, and every file
\* whose read succeeded was submitted for conversion and its run is over.
\* ask is aborted only before the first file.
C21_SiblingsNotAborted ==
    /\ askPc = "finished" =>
           \A f \in Units :
               /\ Processed(f)
               /\ outcome[f] # "readFailed" <=> Submitted(f)
               /\ Submitted(f) => Done(f)
    /\ askPc = "loop" =>
           /\ file \in Units
           /\ \A f \in Units : Processed(f) <=> f < file
           /\ \A f \in Units : f > file => ~Submitted(f)
    /\ askPc = "aborted" => \A f \in Units : ~Processed(f) /\ ~Submitted(f)

\* the first file's read failed and the last file was still converted and
\* saved
C21_Witness ==
    /\ askPc = "finished"
    /\ outcome[1] = "readFailed" /\ ~Submitted(1)
    /\ outcome[NUnits] = "saved" /\ IsSuccess(NUnits)

====
